---- MODULE Spec2Model ----
(***************************************************************************)
(* Model of the skip list of package skip (src/unnamed/part_000): the node *)
(* arena, the head vector, the height generator, Get, Put and the forward  *)
(* iterator.  A []byte is modelled as a record that keeps Go's distinction *)
(* between the nil slice and an empty non-nil slice.                       *)
(***************************************************************************)
EXTENDS Integers, Sequences, FiniteSets, TLC

\* ------------------------------------------------------------------ bounds
\* capacity of the list; the program's value is math.MaxUint32 - 1
maxCount == 3

\* ------------------------------------------------------- program constants
maxHeight == 5
highest == maxHeight - 1
nullID == 0
pattern1 == 7
pattern2 == 63
pattern3 == 511
pattern4 == 4095

Levels == 0 .. (maxHeight - 1)

\* ------------------------------------------------------------ byte slices
NilSlice == [isNil |-> TRUE, bytes |-> <<>>]
B(s) == [isNil |-> FALSE, bytes |-> s]

\* the keys callers use: the empty non-nil key, two keys of one byte and a
\* key that extends one of them; callers may also pass the nil slice
Keys == {B(<<>>), B(<<1>>), B(<<1, 2>>), B(<<2>>)}
AllKeys == Keys \cup {NilSlice}
Vals == {NilSlice, B(<<1>>)}

\* the draws the random source can produce (Int63 is non-negative): 6 fails
\* the first pattern, 71 passes the first pattern only, 8191 passes all four
\* and has a bit set above the widest one
DrawSet == {6, 71, 8191}

\* the comparator handed to NewSkipList: bytes.Compare, which reads a nil
\* slice as the empty byte sequence
RECURSIVE SeqCompare(_, _)
SeqCompare(a, b) ==
    IF a = <<>> /\ b = <<>> THEN 0
    ELSE IF a = <<>> THEN -1
    ELSE IF b = <<>> THEN 1
    ELSE IF Head(a) < Head(b) THEN -1
    ELSE IF Head(a) > Head(b) THEN 1
    ELSE SeqCompare(Tail(a), Tail(b))

cmp(left, right) == SeqCompare(left.bytes, right.bytes)

\* ------------------------------------------------------------------- state
VARIABLES
    list,        \* the *List: head, nodes, src
    randStream,  \* the outputs of rand.NewSource(0), in the order drawn
    written,     \* history: the value of the last Put that returned, per key
    res,         \* the last Put call and how it ended
    twin,        \* a second list built by NewSkipList
    pending,     \* the Put calls made on list and not yet on twin
    heights,     \* how many of the draws swept so far gave each height
    iter,        \* the *ListIter of the caller
    iterating,   \* the caller has called Iter
    yielded,     \* the non-nil keys Next has returned, in order
    atIter,      \* the keys that were in the list when Iter was called
    ended,       \* a Next has returned the nil key
    ddb,         \* dbData.Ddb: the branches and the working sets
    cwbHeadRef,  \* dbData.Rsr.CWBHeadRef(): the checked-out branch
    ret          \* the last dolt_branch call and the error it returned

rollVars == <<heights>>

iterVars == <<iter, iterating, yielded, atIter, ended>>

branchVars == <<ddb, cwbHeadRef, ret>>

vars ==
    <<list, randStream, written, res, twin, pending, rollVars, iterVars,
      branchVars>>

zeroPointer == [h \in Levels |-> nullID]

\* the zero value of skipNode (var prevNd skipNode)
zeroNode ==
    [id |-> nullID, key |-> NilSlice, val |-> NilSlice, height |-> 0,
     next |-> zeroPointer]

sentinel ==
    [id |-> nullID, key |-> NilSlice, val |-> NilSlice, height |-> maxHeight,
     next |-> zeroPointer]

\* rand.NewSource(seed): the state of a source is its seed and how many
\* values were drawn from it
NewSource(seed) == [seed |-> seed, pos |-> 0]

NewSkipList ==
    [head |-> zeroPointer, nodes |-> <<sentinel>>, src |-> NewSource(0)]

\* a Count that takes the sentinel for a stored node
CountWithSentinel(l) == Len(l.nodes)

Count(l) == Len(l.nodes) - 1

\* a Full that lets one node too many in (> for >=)
FullOffByOne(l) == Count(l) > maxCount

Full(l) == Count(l) >= maxCount

getNode(l, id) == l.nodes[id + 1]

updateNode(l, node) == [l EXCEPT !.nodes[node.id + 1] = node]

\* a compareKeys without the rule for the key of the sentinel
compareKeysNoSentinel(left, right) == cmp(left, right)

compareKeys(left, right) ==
    IF right.isNil THEN -1 ELSE cmp(left, right)

\* a compare with its arguments the wrong way round
compareSwapped(left, right) == compareKeys(right.key, left.key)

compare(left, right) == compareKeys(left.key, right.key)

\* ------------------------------------------------------- height generator
\* uint64 a & b
RECURSIVE BitAnd(_, _)
BitAnd(a, b) ==
    IF a = 0 \/ b = 0 THEN 0
    ELSE 2 * BitAnd(a \div 2, b \div 2) + (IF a % 2 = 1 /\ b % 2 = 1 THEN 1 ELSE 0)

patterns == <<pattern1, pattern2, pattern3, pattern4>>

\* a loop that counts the pattern it breaks on
RECURSIVE rollLoopCountsBreak(_, _, _)
rollLoopCountsBreak(roll, i, h) ==
    IF i > Len(patterns) THEN h
    ELSE IF BitAnd(roll, patterns[i]) # patterns[i] THEN h + 1
    ELSE rollLoopCountsBreak(roll, i + 1, h + 1)

RECURSIVE rollLoop(_, _, _)
rollLoop(roll, i, h) ==
    IF i > Len(patterns) THEN h
    ELSE IF BitAnd(roll, patterns[i]) # patterns[i] THEN h
    ELSE rollLoop(roll, i + 1, h + 1)

\* an Int63 of one source shared by the lists of the process: every draw of
\* either list moves it on
Int63Shared(r) == randStream[((list.src.pos + twin.src.pos) % maxCount) + 1]

\* r.Int63(): the next value of the stream of the source
Int63(r) == randStream[r.pos + 1]

rollHeight(r) == rollLoop(Int63(r), 1, 0)

\* the source after one draw
Advance(r) == [r EXCEPT !.pos = r.pos + 1]

\* a uint32 one value too narrow for the capacity
nodeIdNarrow(n) == n % maxCount

\* the conversion nodeId(n) to uint32: maxCount is MaxUint32 - 1, so the type
\* holds the maxCount + 2 values 0 .. maxCount + 1
nodeId(n) == n % (maxCount + 2)

\* makeNode returns the list with the node appended and the node
makeNode(l, key, val) ==
    LET n == [id |-> nodeId(Len(l.nodes)), key |-> key, val |-> val,
              height |-> rollHeight(l.src), next |-> zeroPointer]
    IN [list |-> [l EXCEPT !.nodes = Append(l.nodes, n), !.src = Advance(l.src)],
        node |-> n]

\* --------------------------------------------------------------------- Get
\* an inner loop of Get that also walks past a node of equal key
RECURSIVE GetWalkPastEqual(_, _, _, _, _)
GetWalkPastEqual(l, key, h, ptr, fuel) ==
    LET curr == getNode(l, ptr[h]) IN
    IF compareKeys(key, curr.key) >= 0
    THEN IF fuel = 0
         THEN [hang |-> TRUE, ptr |-> ptr, curr |-> curr, followed |-> {}]
         ELSE LET w == GetWalkPastEqual(l, key, h, curr.next, fuel - 1) IN
              [w EXCEPT !.followed = @ \cup {curr.id}]
    ELSE [hang |-> FALSE, ptr |-> ptr, curr |-> curr, followed |-> {}]

\* the inner loop of Get at level h; a loop that has taken more steps than
\* there are nodes is in a cycle and never ends.  followed is the set of
\* nodes whose next vector the loop took (ptr = curr.next)
RECURSIVE GetWalk(_, _, _, _, _)
GetWalk(l, key, h, ptr, fuel) ==
    LET curr == getNode(l, ptr[h]) IN
    IF compareKeys(key, curr.key) > 0
    THEN IF fuel = 0
         THEN [hang |-> TRUE, ptr |-> ptr, curr |-> curr, followed |-> {}]
         ELSE LET w == GetWalk(l, key, h, curr.next, fuel - 1) IN
              [w EXCEPT !.followed = @ \cup {curr.id}]
    ELSE [hang |-> FALSE, ptr |-> ptr, curr |-> curr, followed |-> {}]

\* a descent of Get that stops above level 0 (h > 0 for h >= 0)
RECURSIVE GetDescendAboveZero(_, _, _, _)
GetDescendAboveZero(l, key, h, ptr) ==
    LET w == GetWalk(l, key, h, ptr, Len(l.nodes)) IN
    IF w.hang \/ h = 1 THEN w
    ELSE GetDescendAboveZero(l, key, h - 1, w.ptr)

RECURSIVE GetDescend(_, _, _, _)
GetDescend(l, key, h, ptr) ==
    LET w == GetWalk(l, key, h, ptr, Len(l.nodes)) IN
    IF w.hang \/ h = 0 THEN w
    ELSE LET d == GetDescend(l, key, h - 1, w.ptr) IN
         [d EXCEPT !.followed = @ \cup w.followed]

Get(l, key) ==
    LET d == GetDescend(l, key, highest, l.head) IN
    IF d.hang THEN [val |-> NilSlice, ok |-> FALSE, out |-> "hang"]
    ELSE IF compareKeys(key, d.curr.key) = 0
    THEN [val |-> d.curr.val, ok |-> TRUE, out |-> "return"]
    ELSE [val |-> NilSlice, ok |-> FALSE, out |-> "return"]

Has(l, key) == Get(l, key).ok

\* --------------------------------------------------------------------- Put
\* the inner loop of the descent of Put at level h
RECURSIVE PutWalk(_, _, _, _, _, _)
PutWalk(l, key, h, prevNd, next, fuel) ==
    LET currNd == getNode(l, next[h]) IN
    IF compareKeys(key, currNd.key) > 0
    THEN IF fuel = 0
         THEN [hang |-> TRUE, prevNd |-> prevNd, next |-> next, currNd |-> currNd]
         ELSE PutWalk(l, key, h, currNd, currNd.next, fuel - 1)
    ELSE [hang |-> FALSE, prevNd |-> prevNd, next |-> next, currNd |-> currNd]

\* a descent that saves the node it entered the level with, not the last
\* node it passed at the level
RECURSIVE PutDescendStale(_, _, _, _, _, _)
PutDescendStale(l, key, h, prevNd, next, breadcrumbs) ==
    IF h < 0
    THEN [hang |-> FALSE, found |-> FALSE, currNd |-> zeroNode,
          breadcrumbs |-> breadcrumbs]
    ELSE LET w == PutWalk(l, key, h, prevNd, next, Len(l.nodes)) IN
         IF w.hang
         THEN [hang |-> TRUE, found |-> FALSE, currNd |-> zeroNode,
               breadcrumbs |-> breadcrumbs]
         ELSE IF compareKeys(key, w.currNd.key) = 0
         THEN [hang |-> FALSE, found |-> TRUE, currNd |-> w.currNd,
               breadcrumbs |-> breadcrumbs]
         ELSE PutDescendStale(l, key, h - 1, w.prevNd, w.next,
                              [breadcrumbs EXCEPT ![h] = prevNd.id])

\* the descent of Put from level h down: either the node holding the key or
\* the breadcrumbs
RECURSIVE PutDescend(_, _, _, _, _, _)
PutDescend(l, key, h, prevNd, next, breadcrumbs) ==
    IF h < 0
    THEN [hang |-> FALSE, found |-> FALSE, currNd |-> zeroNode,
          breadcrumbs |-> breadcrumbs]
    ELSE LET w == PutWalk(l, key, h, prevNd, next, Len(l.nodes)) IN
         IF w.hang
         THEN [hang |-> TRUE, found |-> FALSE, currNd |-> zeroNode,
               breadcrumbs |-> breadcrumbs]
         ELSE IF compareKeys(key, w.currNd.key) = 0
         THEN [hang |-> FALSE, found |-> TRUE, currNd |-> w.currNd,
               breadcrumbs |-> breadcrumbs]
         ELSE PutDescend(l, key, h - 1, w.prevNd, w.next,
                         [breadcrumbs EXCEPT ![h] = w.prevNd.id])

\* a splice loop that stops one level short (h < insert.height)
RECURSIVE SpliceBelowHeight(_, _, _, _)
SpliceBelowHeight(l, insert, breadcrumbs, h) ==
    IF h >= insert.height THEN updateNode(l, insert)
    ELSE LET head == getNode(l, l.head[h]) IN
         IF compare(insert, head) < 0
         THEN SpliceBelowHeight([l EXCEPT !.head[h] = insert.id],
                     [insert EXCEPT !.next[h] = head.id], breadcrumbs, h + 1)
         ELSE LET prev == getNode(l, breadcrumbs[h]) IN
              SpliceBelowHeight(updateNode(l, [prev EXCEPT !.next[h] = insert.id]),
                     [insert EXCEPT !.next[h] = prev.next[h]], breadcrumbs, h + 1)

\* a splice loop without the test against the head: it always links the new
\* node in behind the breadcrumb
RECURSIVE SpliceNoHead(_, _, _, _)
SpliceNoHead(l, insert, breadcrumbs, h) ==
    IF h > insert.height THEN updateNode(l, insert)
    ELSE LET prev == getNode(l, breadcrumbs[h]) IN
         SpliceNoHead(updateNode(l, [prev EXCEPT !.next[h] = insert.id]),
                      [insert EXCEPT !.next[h] = prev.next[h]], breadcrumbs, h + 1)

\* a splice loop that links the new node in before the head and forgets to
\* make it the head
RECURSIVE SpliceForgetsHead(_, _, _, _)
SpliceForgetsHead(l, insert, breadcrumbs, h) ==
    IF h > insert.height THEN updateNode(l, insert)
    ELSE LET head == getNode(l, l.head[h]) IN
         IF compare(insert, head) < 0
         THEN SpliceForgetsHead(l, [insert EXCEPT !.next[h] = head.id],
                                breadcrumbs, h + 1)
         ELSE LET prev == getNode(l, breadcrumbs[h]) IN
              SpliceForgetsHead(updateNode(l, [prev EXCEPT !.next[h] = insert.id]),
                     [insert EXCEPT !.next[h] = prev.next[h]], breadcrumbs, h + 1)

\* the loop that links the new node in at the levels h..insert.height, then
\* stores the new node
RECURSIVE Splice(_, _, _, _)
Splice(l, insert, breadcrumbs, h) ==
    IF h > insert.height THEN updateNode(l, insert)
    ELSE LET head == getNode(l, l.head[h]) IN
         IF compare(insert, head) < 0
         THEN Splice([l EXCEPT !.head[h] = insert.id],
                     [insert EXCEPT !.next[h] = head.id], breadcrumbs, h + 1)
         ELSE LET prev == getNode(l, breadcrumbs[h]) IN
              Splice(updateNode(l, [prev EXCEPT !.next[h] = insert.id]),
                     [insert EXCEPT !.next[h] = prev.next[h]], breadcrumbs, h + 1)

PanicNilKey == "panic: key must be non-nil"
PanicNoCapacity == "panic: list has no capacity"

\* a Put that draws the height before it knows whether the key is new
PutCheckedDrawsFirst(l, key, val) ==
    LET d == PutDescend(l, key, highest, zeroNode, l.head, zeroPointer) IN
    IF d.hang THEN [list |-> l, out |-> "hang"]
    ELSE IF d.found
    THEN [list |-> [updateNode(l, [d.currNd EXCEPT !.val = val])
                       EXCEPT !.src = Advance(l.src)],
          out |-> "updated"]
    ELSE LET m == makeNode(l, key, val) IN
         [list |-> Splice(m.list, m.node, d.breadcrumbs, 0),
          out |-> "inserted"]

\* the rest of Put, after its two checks
PutChecked(l, key, val) ==
    LET d == PutDescend(l, key, highest, zeroNode, l.head, zeroPointer) IN
    IF d.hang THEN [list |-> l, out |-> "hang"]
    ELSE IF d.found
    THEN [list |-> updateNode(l, [d.currNd EXCEPT !.val = val]),
          out |-> "updated"]
    ELSE LET m == makeNode(l, key, val) IN
         [list |-> Splice(m.list, m.node, d.breadcrumbs, 0),
          out |-> "inserted"]

\* a Put without the check of the key
PutNoKeyCheck(l, key, val) ==
    IF Full(l) THEN [list |-> l, out |-> PanicNoCapacity]
    ELSE PutChecked(l, key, val)

\* a Put that refuses an empty key as it refuses a nil key (len(key) == 0)
PutRefusesEmptyKey(l, key, val) ==
    IF key.isNil \/ key.bytes = <<>> THEN [list |-> l, out |-> PanicNilKey]
    ELSE IF Full(l) THEN [list |-> l, out |-> PanicNoCapacity]
    ELSE PutChecked(l, key, val)

\* Put returns the list after the call and how the call ended
Put(l, key, val) ==
    IF key.isNil THEN [list |-> l, out |-> PanicNilKey]
    ELSE IF Full(l) THEN [list |-> l, out |-> PanicNoCapacity]
    ELSE PutChecked(l, key, val)

\* ---------------------------------------------------------------- iterator
\* a firstNode that starts at the head of the highest level
firstNodeHighest(l) == getNode(l, l.head[highest])

firstNode(l) == getNode(l, l.head[0])

\* a *ListIter holds a copy of the current node
Iter(l) == [curr |-> firstNode(l)]

\* a Next that moves on along the highest level
NextAlongHighest(l, i) ==
    [key |-> i.curr.key, val |-> i.curr.val,
     it |-> [curr |-> getNode(l, i.curr.next[highest])]]

\* Next returns the pair of the current node and the iterator moved on
Next(l, it) ==
    [key |-> it.curr.key, val |-> it.curr.val,
     it |-> [curr |-> getNode(l, it.curr.next[0])]]

\* the pairs IterAll hands to its callback, in order
RECURSIVE IterAllLoop(_, _, _, _)
IterAllLoop(l, it, acc, fuel) ==
    LET n == Next(l, it) IN
    IF n.key.isNil THEN [hang |-> FALSE, pairs |-> acc]
    ELSE IF fuel = 0 THEN [hang |-> TRUE, pairs |-> acc]
    ELSE IterAllLoop(l, n.it, Append(acc, <<n.key, n.val>>), fuel - 1)

IterAll(l) == IterAllLoop(l, Iter(l), <<>>, Len(l.nodes))

\* ------------------------------------------------------------- dolt_branch
\* the branch names a database may hold, and the strings a caller may pass
BranchNames == {"main", "dev", "new"}

ArgNames == BranchNames \cup {"", "?"}

\* the commits: c1 is a child of c0
Commits == {"c0", "c1"}

NoCommit == "none"

IsAncestor(a, b) == a = "c0" /\ b = "c1"

\* a database with the branch main, checked out
NewDatabase ==
    [branches |-> [b \in BranchNames |-> IF b = "main" THEN "c0" ELSE NoCommit],
     workingSets |-> {"main"}]

\* an error value: the package variable it is ("" for an error made on the
\* spot), its format and the arguments of the format.  Go compares errors
\* by identity, so an error made on the spot equals no package variable
NoErr == [var |-> "nil", msg |-> "", args |-> <<>>]

\* errors.New(fmt.Sprintf(msg, args...)) at the place of the call
Errorf(msg, args) == [var |-> "", msg |-> msg, args |-> args]

\* var name = errors.New(msg)
ErrVar(name, msg) == [var |-> name, msg |-> msg, args |-> <<>>]

EmptyBranchNameErr ==
    ErrVar("EmptyBranchNameErr", "error: cannot branch empty string")

InvalidArgErr == ErrVar("InvalidArgErr", "error: invalid usage")

ErrBranchNotFound == ErrVar("doltdb.ErrBranchNotFound", "branch not found")

ErrAlreadyExists == ErrVar("actions.ErrAlreadyExists", "already exists")

ErrInvBranchName ==
    ErrVar("doltdb.ErrInvBranchName", "not a valid user branch name")

ErrWorkingSetNotFound ==
    ErrVar("doltdb.ErrWorkingSetNotFound", "working set not found")

ErrCOBranchDelete ==
    ErrVar("actions.ErrCOBranchDelete", "attempted to delete checked out branch")

NoRet == [mode |-> "none", err |-> NoErr]

\* what the code leaves to the packages it calls: whether a new branch
\* comes with a working set, and whether deleting a working set that is not
\* there is an error
Ext == [newBranchHasWS : BOOLEAN, deleteMissingWSFails : BOOLEAN]

\* dbData.Ddb.HasRef, actions.IsBranch
HasRef(d, name) == name \in BranchNames /\ d.branches[name] # NoCommit

IsBranch(d, name) == HasRef(d, name)

IsValidUserBranchName(name) == name \in BranchNames

\* ddb.NewBranchAtCommit
NewBranchAtCommit(d, name, cm, ext) ==
    [branches |-> [d.branches EXCEPT ![name] = cm],
     workingSets |-> IF ext.newBranchHasWS THEN d.workingSets \cup {name}
                     ELSE d.workingSets]

\* actions.CreateBranchWithStartPt(ctx, dbData, branchName, "head", false)
CreateBranchWithStartPt(d, cwb, branchName, ext) ==
    IF ~IsValidUserBranchName(branchName)
    THEN [ddb |-> d, err |-> ErrInvBranchName]
    ELSE IF ~HasRef(d, cwb) THEN [ddb |-> d, err |-> ErrBranchNotFound]
    ELSE [ddb |-> NewBranchAtCommit(d, branchName, d.branches[cwb], ext),
          err |-> NoErr]

\* actions.CopyBranchOnDB
CopyBranchOnDB(d, srcBr, destBr, force, ext) ==
    IF ~HasRef(d, srcBr) THEN [ddb |-> d, err |-> ErrBranchNotFound]
    ELSE IF ~force /\ HasRef(d, destBr) THEN [ddb |-> d, err |-> ErrAlreadyExists]
    ELSE IF ~IsValidUserBranchName(destBr) THEN [ddb |-> d, err |-> ErrInvBranchName]
    ELSE [ddb |-> NewBranchAtCommit(d, destBr, d.branches[srcBr], ext),
          err |-> NoErr]

\* dbData.Ddb.CopyWorkingSet(ctx, fromWSRef, toWSRef, true)
CopyWorkingSet(d, from, to) ==
    IF from \notin d.workingSets THEN [ddb |-> d, err |-> ErrWorkingSetNotFound]
    ELSE [ddb |-> [d EXCEPT !.workingSets = @ \cup {to}], err |-> NoErr]

\* dbData.Ddb.DeleteWorkingSet
DeleteWorkingSet(d, name, ext) ==
    IF name \notin d.workingSets /\ ext.deleteMissingWSFails
    THEN [ddb |-> d, err |-> ErrWorkingSetNotFound]
    ELSE [ddb |-> [d EXCEPT !.workingSets = @ \ {name}], err |-> NoErr]

\* dbData.Ddb.DeleteBranch
DeleteBranch(d, name) ==
    [ddb |-> [d EXCEPT !.branches[name] = NoCommit], err |-> NoErr]

\* init.CanFastReverseTo(ctx, cm), its error (ErrUpToDate for the same
\* commit) dropped
CanFastReverseTo(init, cm) == init = cm \/ IsAncestor(cm, init)

createNewBranch(d, cwb, branchName, ext) ==
    IF IsBranch(d, branchName)
    THEN [ddb |-> d,
          err |-> Errorf("fatal: A branch named '%s' already exists.", <<branchName>>)]
    ELSE CreateBranchWithStartPt(d, cwb, branchName, ext)

copyABranch(d, srcBr, destBr, force, ext) ==
    LET r == CopyBranchOnDB(d, srcBr, destBr, force, ext) IN
    IF r.err = NoErr THEN r
    ELSE IF r.err = ErrBranchNotFound
    THEN [ddb |-> r.ddb,
          err |-> Errorf("fatal: A branch named '%s' not found", <<srcBr>>)]
    ELSE IF r.err = ErrAlreadyExists
    THEN [ddb |-> r.ddb,
          err |-> Errorf("fatal: A branch named '%s' already exists.", <<destBr>>)]
    ELSE IF r.err = ErrInvBranchName
    THEN [ddb |-> r.ddb,
          err |-> Errorf("fatal: '%s' is not a valid branch name.", <<destBr>>)]
    ELSE [ddb |-> r.ddb,
          err |-> Errorf("fatal: Unexpected error copying branch from '%s' to '%s'",
                         <<srcBr, destBr>>)]

makeACopyOfBranch(d, args, force, ext) ==
    IF Len(args) # 2 THEN [ddb |-> d, err |-> InvalidArgErr]
    ELSE IF args[1] = "" THEN [ddb |-> d, err |-> EmptyBranchNameErr]
    ELSE IF args[2] = "" THEN [ddb |-> d, err |-> EmptyBranchNameErr]
    ELSE copyABranch(d, args[1], args[2], force, ext)

\* a deleteABranch without the test for the checked-out branch
deleteABranchAnyBranch(d, cwb, brName, force, ext) ==
    IF ~HasRef(d, brName)
    THEN [ddb |-> d,
          err |-> Errorf("fatal: A branch named '%s' not found", <<brName>>)]
    ELSE LET w == DeleteWorkingSet(d, brName, ext) IN
         IF w.err # NoErr THEN w ELSE DeleteBranch(w.ddb, brName)

\* (the source writes -f of the last message between backquotes)
deleteABranch(d, cwb, brName, force, ext) ==
    IF cwb = brName
    THEN [ddb |-> d,
          err |-> Errorf("attempted to delete checked out branch", <<>>)]
    ELSE IF ~HasRef(d, brName)
    THEN [ddb |-> d,
          err |-> Errorf("fatal: A branch named '%s' not found", <<brName>>)]
    ELSE IF ~force /\ ~HasRef(d, "main")
    THEN [ddb |-> d, err |-> ErrBranchNotFound]
    ELSE IF ~force /\ ~CanFastReverseTo(d.branches["main"], d.branches[brName])
    THEN [ddb |-> d,
          err |-> Errorf("attempted to delete a branch that is not fully merged into its parent; use -f to force", <<>>)]
    ELSE LET w == DeleteWorkingSet(d, brName, ext) IN
         IF w.err # NoErr THEN w ELSE DeleteBranch(w.ddb, brName)

renameBranch(d, cwb, args, force, ext) ==
    IF Len(args) # 2 THEN [ddb |-> d, err |-> InvalidArgErr]
    ELSE IF args[1] = "" THEN [ddb |-> d, err |-> EmptyBranchNameErr]
    ELSE IF args[2] = "" THEN [ddb |-> d, err |-> EmptyBranchNameErr]
    ELSE LET oldBr == args[1]
             newBr == args[2]
             c == copyABranch(d, oldBr, newBr, force, ext)
         IN IF c.err # NoErr THEN c
            ELSE IF cwb = oldBr
            THEN [ddb |-> c.ddb,
                  err |-> Errorf("error: Cannot rename checked out branch", <<>>)]
            ELSE LET w == CopyWorkingSet(c.ddb, oldBr, newBr) IN
                 IF w.err # NoErr THEN w
                 ELSE deleteABranch(w.ddb, cwb, oldBr, TRUE, ext)

\* the loop of deleteBranches over the arguments from the i-th on
RECURSIVE deleteLoop(_, _, _, _, _, _)
deleteLoop(d, cwb, args, i, force, ext) ==
    IF i > Len(args) THEN [ddb |-> d, err |-> NoErr]
    ELSE IF args[i] = "" THEN [ddb |-> d, err |-> EmptyBranchNameErr]
    ELSE LET r == deleteABranch(d, cwb, args[i], force, ext) IN
         IF r.err = NoErr THEN deleteLoop(r.ddb, cwb, args, i + 1, force, ext)
         ELSE IF r.err = ErrBranchNotFound
         THEN [ddb |-> r.ddb,
               err |-> Errorf("fatal: A branch named '%s' not found", <<args[i]>>)]
         ELSE IF r.err = ErrCOBranchDelete
         THEN [ddb |-> r.ddb,
               err |-> Errorf("error: Cannot delete checked out branch '%s'",
                              <<args[i]>>)]
         ELSE [ddb |-> r.ddb,
               err |-> Errorf("fatal: Unexpected error deleting '%s'", <<args[i]>>)]

deleteBranches(d, cwb, args, force, ext) ==
    IF Len(args) = 0 THEN [ddb |-> d, err |-> InvalidArgErr]
    ELSE deleteLoop(d, cwb, args, 1, force, ext)

\* the flag the switch of Eval acts on, or create when there is none
Modes == {"copy", "move", "delete", "deleteForce", "create"}

\* the arguments of a call: up to two strings
ArgLists ==
    {<<>>} \cup {<<a>> : a \in ArgNames} \cup {<<a, b>> : a, b \in ArgNames}

Eval(d, cwb, mode, args, force, ext) ==
    IF mode = "copy" THEN makeACopyOfBranch(d, args, force, ext)
    ELSE IF mode = "move" THEN renameBranch(d, cwb, args, force, ext)
    ELSE IF mode = "delete" THEN deleteBranches(d, cwb, args, force, ext)
    ELSE IF mode = "deleteForce" THEN deleteBranches(d, cwb, args, TRUE, ext)
    ELSE IF Len(args) # 1 THEN [ddb |-> d, err |-> InvalidArgErr]
    ELSE IF args[1] = "" THEN [ddb |-> d, err |-> EmptyBranchNameErr]
    ELSE createNewBranch(d, cwb, args[1], ext)

\* ----------------------------------------------------------------- actions
NotWritten == [put |-> FALSE, val |-> NilSlice]

NoCall == [op |-> "NewSkipList", key |-> NilSlice, out |-> "return"]

\* the history after a Put call that ended with out
Record(w, key, val, out) ==
    IF out \in {"updated", "inserted"}
    THEN [w EXCEPT ![key] = [put |-> TRUE, val |-> val]]
    ELSE w

Init ==
    /\ list = NewSkipList
    /\ twin = NewSkipList
    /\ pending = <<>>
    /\ randStream \in [1 .. maxCount -> DrawSet]
    /\ written = [k \in AllKeys |-> NotWritten]
    /\ res = NoCall
    /\ heights = [h \in Levels |-> 0]
    /\ iter = [curr |-> zeroNode]
    /\ iterating = FALSE
    /\ yielded = <<>>
    /\ atIter = {}
    /\ ended = FALSE
    /\ ddb = NewDatabase
    /\ cwbHeadRef = "main"
    /\ ret = NoRet

\* a caller calls Put; a call that panics or never returns leaves the list as
\* it was
PutOp ==
    \E key \in AllKeys, val \in Vals :
        LET r == Put(list, key, val) IN
        /\ list' = r.list
        /\ written' = Record(written, key, val, r.out)
        /\ res' = [op |-> "Put", key |-> key, out |-> r.out]
        /\ UNCHANGED <<randStream, twin, pending, rollVars, iterVars, branchVars>>

\* the read-only calls return and change nothing; what they return is stated
\* over Get, Has, Count, Full and IterAll in each state
GetOp ==
    \E key \in AllKeys :
        /\ Get(list, key).out = "return"
        /\ UNCHANGED vars

HasOp ==
    \E key \in AllKeys :
        /\ Has(list, key) \in BOOLEAN
        /\ UNCHANGED vars

CountOp ==
    /\ Count(list) \in Nat
    /\ UNCHANGED vars

FullOp ==
    /\ Full(list) \in BOOLEAN
    /\ UNCHANGED vars

IterAllOp ==
    /\ ~IterAll(list).hang
    /\ UNCHANGED vars

NextStep == PutOp \/ GetOp \/ HasOp \/ CountOp \/ FullOp \/ IterAllOp

Spec == Init /\ [][NextStep]_vars

\* ------------------------------------------------- two lists, driven alike
\* a caller makes a Put call on list and owes the same call to twin
TwinPutFirst ==
    /\ pending = <<>>
    /\ \E key \in AllKeys, val \in Vals :
        LET r == Put(list, key, val) IN
        /\ list' = r.list
        /\ written' = Record(written, key, val, r.out)
        /\ res' = [op |-> "Put", key |-> key, out |-> r.out]
        /\ pending' = <<[key |-> key, val |-> val]>>
        /\ UNCHANGED <<randStream, twin, rollVars, iterVars, branchVars>>

\* the caller makes the owed call on twin
TwinPutSecond ==
    /\ pending # <<>>
    /\ twin' = Put(twin, pending[1].key, pending[1].val).list
    /\ pending' = <<>>
    /\ UNCHANGED <<list, randStream, written, res, rollVars, iterVars, branchVars>>

NextTwin == TwinPutFirst \/ TwinPutSecond

SpecTwin == Init /\ [][NextTwin]_vars

\* ------------------------------------------ an iterator and Puts between
StoredKeys(l) == {getNode(l, id).key : id \in 1 .. Count(l)}

\* the caller calls Iter, once
IterOp ==
    /\ ~iterating
    /\ iter' = Iter(list)
    /\ iterating' = TRUE
    /\ atIter' = StoredKeys(list)
    /\ UNCHANGED <<list, randStream, written, res, twin, pending, rollVars,
                   yielded, ended, branchVars>>

\* the caller calls Next on its iterator
NextOp ==
    /\ iterating
    /\ LET n == Next(list, iter) IN
       /\ iter' = n.it
       /\ yielded' = IF n.key.isNil THEN yielded ELSE Append(yielded, n.key)
       /\ ended' = (ended \/ n.key.isNil)
    /\ UNCHANGED <<list, randStream, written, res, twin, pending, rollVars,
                   iterating, atIter, branchVars>>

\* the values put before and between the calls of the iterator
IterVals == {B(<<1>>)}

\* a Put before Iter or between two calls of Next
IterPutOp ==
    \E key \in AllKeys, val \in IterVals :
        LET r == Put(list, key, val) IN
        /\ list' = r.list
        /\ written' = Record(written, key, val, r.out)
        /\ UNCHANGED <<randStream, res, twin, pending, rollVars, iterVars, branchVars>>

NextIter == IterPutOp \/ IterOp \/ NextOp

\* the caller goes on calling Next
SpecIter == Init /\ [][NextIter]_vars /\ WF_vars(NextOp)

\* ------------------------------------------------- calls of dolt_branch
\* a database whose checked-out branch exists; any of its branches may have
\* a working set
InitBranch ==
    /\ list = NewSkipList
    /\ twin = NewSkipList
    /\ pending = <<>>
    /\ randStream = [i \in 1 .. maxCount |-> 6]
    /\ written = [k \in AllKeys |-> NotWritten]
    /\ res = NoCall
    /\ heights = [h \in Levels |-> 0]
    /\ iter = [curr |-> zeroNode]
    /\ iterating = FALSE
    /\ yielded = <<>>
    /\ atIter = {}
    /\ ended = FALSE
    /\ cwbHeadRef \in BranchNames
    /\ \E br \in [BranchNames -> Commits \cup {NoCommit}] :
           /\ br[cwbHeadRef] # NoCommit
           /\ \E ws \in SUBSET {b \in BranchNames : br[b] # NoCommit} :
                  ddb = [branches |-> br, workingSets |-> ws]
    /\ ret = NoRet

\* a session calls dolt_branch
EvalOp ==
    \E mode \in Modes, args \in ArgLists, force \in BOOLEAN, ext \in Ext :
        LET r == Eval(ddb, cwbHeadRef, mode, args, force, ext) IN
        /\ ddb' = r.ddb
        /\ ret' = [mode |-> mode, err |-> r.err]
        /\ UNCHANGED <<list, randStream, written, res, twin, pending, rollVars,
                       iterVars, cwbHeadRef>>

SpecBranch == InitBranch /\ [][EvalOp]_vars

\* ------------------------------------------- the heights of a run of draws
\* the first draw of a sweep: the lowest draw, one that is no multiple of the
\* widest pattern's period, and one with the high bits set
RollBases == {0, 123456789, 2147475000}

\* a sweep takes as many consecutive draws as the widest pattern tells apart
RollSweep == pattern4 + 1

Rolled == heights[0] + heights[1] + heights[2] + heights[3] + heights[4]

InitRoll ==
    /\ list = NewSkipList
    /\ twin = NewSkipList
    /\ pending = <<>>
    /\ randStream \in {[i \in 1 .. maxCount |-> base] : base \in RollBases}
    /\ written = [k \in AllKeys |-> NotWritten]
    /\ res = NoCall
    /\ heights = [h \in Levels |-> 0]
    /\ iter = [curr |-> zeroNode]
    /\ iterating = FALSE
    /\ yielded = <<>>
    /\ atIter = {}
    /\ ended = FALSE
    /\ ddb = NewDatabase
    /\ cwbHeadRef = "main"
    /\ ret = NoRet

\* a Put on a new list whose source gives the next draw of the sweep
RollOp ==
    /\ Rolled < RollSweep
    /\ LET r == Put(NewSkipList, B(<<1>>), NilSlice) IN
       /\ list' = r.list
       /\ written' = Record([k \in AllKeys |-> NotWritten], B(<<1>>), NilSlice, r.out)
       /\ res' = [op |-> "Put", key |-> B(<<1>>), out |-> r.out]
       /\ heights' = [heights EXCEPT ![getNode(r.list, 1).height] = @ + 1]
    /\ randStream' = [i \in DOMAIN randStream |-> randStream[i] + 1]
    /\ UNCHANGED <<twin, pending, iterVars, branchVars>>

SpecRoll == InitRoll /\ [][RollOp]_vars

\* ------------------------------------------------------ views of the state
LiveIds(l) == 1 .. Count(l)

KeysPut == {k \in AllKeys : written[k].put}

\* the ids met following next[lvl] from head[lvl] up to the sentinel
RECURSIVE ChainFrom(_, _, _, _, _)
ChainFrom(l, lvl, id, acc, fuel) ==
    IF id = nullID THEN [hang |-> FALSE, ids |-> acc]
    ELSE IF fuel = 0 THEN [hang |-> TRUE, ids |-> acc]
    ELSE ChainFrom(l, lvl, getNode(l, id).next[lvl], Append(acc, id), fuel - 1)

Chain(l, lvl) == ChainFrom(l, lvl, l.head[lvl], <<>>, Len(l.nodes))

Ascending(l, ids) ==
    \A i, j \in 1 .. Len(ids) :
        i < j => cmp(getNode(l, ids[i]).key, getNode(l, ids[j]).key) < 0

Returned(out) == out \in {"updated", "inserted"}

IterKey(r, i) == r.pairs[i][1]

\* ------------------------------------------------------------------ claims
\* C1: after any sequence of Put calls a full iteration ends and yields keys
\* in strictly ascending comparator order, so no key is yielded twice.
C1_IterationAscending ==
    LET r == IterAll(list) IN
    /\ ~r.hang
    /\ \A i, j \in 1 .. Len(r.pairs) :
           i < j => cmp(IterKey(r, i), IterKey(r, j)) < 0

\* three keys are stored and the one inserted last is yielded second, the one
\* inserted first is yielded last
C1_Witness ==
    LET r == IterAll(list) IN
    /\ Count(list) = 3
    /\ Len(r.pairs) = 3
    /\ IterKey(r, 2) = getNode(list, 3).key
    /\ IterKey(r, 3) = getNode(list, 1).key

\* C2: Get(k) returns (v, true) when the last Put on k that returned wrote v,
\* whatever other keys were put and whatever heights the nodes got.
C2_GetReturnsLastPut ==
    \A k \in AllKeys :
        written[k].put =>
            Get(list, k) = [val |-> written[k].val, ok |-> TRUE, out |-> "return"]

\* two keys are stored in nodes of different heights, the larger key first;
\* the last call replaced the value of the first one by a non-nil value, and
\* Get returns it
C2_Witness ==
    /\ Count(list) = 2
    /\ res.out = "updated"
    /\ getNode(list, 1).key = res.key
    /\ cmp(getNode(list, 2).key, res.key) < 0
    /\ getNode(list, 1).height = 0
    /\ getNode(list, 2).height = highest
    /\ Get(list, res.key) = [val |-> B(<<1>>), ok |-> TRUE, out |-> "return"]

C4_CountDistinctKeys ==
    /\ Count(list) = 0
    /\ [](Count(list) = Cardinality(KeysPut))
    /\ [][Returned(res'.out) /\ res'.op = "Put" =>
            Count(list') = Count(list) + (IF written[res'.key].put THEN 0 ELSE 1)]_vars

\* a Put on a present key returned and left two nodes
C4_Witness ==
    /\ res.out = "updated"
    /\ Count(list) = 2
    /\ Cardinality(KeysPut) = 2

\* C5: a full iteration yields Count() pairs: each key put, once, with the
\* value written last.
C5_IterationYieldsEveryNode ==
    LET r == IterAll(list) IN
    /\ ~r.hang
    /\ Len(r.pairs) = Count(list)
    /\ {r.pairs[i] : i \in 1 .. Len(r.pairs)} = {<<k, written[k].val>> : k \in KeysPut}

\* the keys <<1, 2>>, <<1>>, <<2>> were inserted in that order, with nodes of
\* heights 1, 0 and 4; the iteration yields the three pairs sorted by key
C5_Witness ==
    /\ Count(list) = 3
    /\ getNode(list, 1).key = B(<<1, 2>>)
    /\ getNode(list, 2).key = B(<<1>>)
    /\ getNode(list, 3).key = B(<<2>>)
    /\ <<getNode(list, 1).height, getNode(list, 2).height,
          getNode(list, 3).height>> = <<1, 0, highest>>
    /\ IterAll(list).pairs =
           << <<B(<<1>>), B(<<1>>)>>, <<B(<<1, 2>>), NilSlice>>,
              <<B(<<2>>), B(<<1>>)>> >>

\* C6: a Put with the nil key panics and leaves the list (arena, head vector,
\* node count, source of heights) as it was, in whatever state the list is.
C6_NilKeyPanicsUnchanged ==
    [][res'.op = "Put" /\ res'.key.isNil =>
          /\ res'.out = PanicNilKey
          /\ list' = list
          /\ Count(list') = Count(list)]_vars

\* a Put with the nil key panicked on a list holding two nodes
C6_Witness ==
    /\ res = [op |-> "Put", key |-> NilSlice, out |-> PanicNilKey]
    /\ Count(list) = 2

C8_FullRefusesEveryPut ==
    /\ Count(list) <= maxCount
    /\ Full(list) <=> Count(list) = maxCount
    /\ Count(list) = maxCount =>
           \A key \in AllKeys, val \in Vals :
               LET r == Put(list, key, val) IN
               /\ r.list = list
               /\ r.out = IF key.isNil THEN PanicNilKey ELSE PanicNoCapacity
    /\ res.out = PanicNoCapacity => Count(list) = maxCount

\* the list is full and a Put on a key it holds panicked
C8_Witness ==
    /\ Full(list)
    /\ res.op = "Put"
    /\ res.out = PanicNoCapacity
    /\ written[res.key].put

C10_LevelChainsAscending ==
    \A lvl \in Levels :
        LET c == Chain(list, lvl) IN
        /\ ~c.hang
        /\ Ascending(list, c.ids)

\* three nodes on the chain of level 1, the last inserted in the middle, and
\* a shorter chain at the highest level
C10_Witness ==
    /\ Count(list) = 3
    /\ Len(Chain(list, 1).ids) = 3
    /\ Chain(list, 1).ids[2] = 3
    /\ Len(Chain(list, highest).ids) = 1

\* C11: a node of height h is on the chains of the levels 0..h and on no
\* other; the chain of level lvl + 1 is the chain of level lvl without the
\* nodes of height lvl or less.
C11_NodeOnLevelsUpToHeight ==
    /\ \A lvl \in Levels :
           {Chain(list, lvl).ids[i] : i \in 1 .. Len(Chain(list, lvl).ids)} =
               {id \in LiveIds(list) : getNode(list, id).height >= lvl}
    /\ \A lvl \in 0 .. (highest - 1) :
           LET higher(id) == getNode(list, id).height > lvl IN
           Chain(list, lvl + 1).ids = SelectSeq(Chain(list, lvl).ids, higher)

\* three nodes of heights 0, 1 and 4: three, two and one node on the chains
\* of the levels 0, 1 and 2
C11_Witness ==
    /\ Count(list) = 3
    /\ {getNode(list, id).height : id \in LiveIds(list)} = {0, 1, highest}
    /\ <<Len(Chain(list, 0).ids), Len(Chain(list, 1).ids), Len(Chain(list, 2).ids)>>
           = <<3, 2, 1>>

\* the levels at which a Put of key would link the new node in behind a
\* breadcrumb: those where the key is not below the key of the head
SpliceLevels(l, key) ==
    {h \in Levels : compareKeys(key, getNode(l, l.head[h]).key) >= 0}

\* C12: the sentinel is never modified: its key is nil and its next links are
\* the sentinel id; and at every level where a Put would link a new node in
\* behind a breadcrumb, that breadcrumb is a real node.
C12_SentinelNeverModified ==
    /\ getNode(list, nullID) = sentinel
    /\ \A key \in Keys :
           LET d == PutDescend(list, key, highest, zeroNode, list.head, zeroPointer) IN
           ~d.hang /\ ~d.found =>
               \A h \in SpliceLevels(list, key) : d.breadcrumbs[h] \in LiveIds(list)

\* the third node was linked in behind breadcrumbs at two levels and before
\* the head at the levels above
C12_Witness ==
    /\ res.out = "inserted"
    /\ Count(list) = 3
    /\ getNode(list, 3).height = highest
    /\ list.head[0] # 3
    /\ list.head[1] # 3
    /\ list.head[2] = 3

\* C13: a Put on a present key changes the value of the node holding the key
\* and nothing else: not the number of nodes, no node's id, key, height or
\* next links, not the head vector, not the source of heights.
C13_UpdateChangesOnlyValue ==
    [][res'.op = "Put" /\ res'.out = "updated" =>
          /\ list'.head = list.head
          /\ list'.src = list.src
          /\ Len(list'.nodes) = Len(list.nodes)
          /\ \A id \in 0 .. Count(list) :
                 LET a == getNode(list, id)
                     b == getNode(list', id)
                 IN /\ b = [a EXCEPT !.val = b.val]
                    /\ b.val # a.val => a.key = res'.key
          /\ Get(list', res'.key).val = written'[res'.key].val]_vars

\* the value of the first of two nodes, the head of the levels 1 to 4, was
\* replaced
C13_Witness ==
    /\ res.op = "Put"
    /\ res.out = "updated"
    /\ Count(list) = 2
    /\ getNode(list, 1).key = res.key
    /\ getNode(list, 1).val = B(<<1>>)
    /\ list.head[highest] = 1
    /\ list.head[0] = 2

\* the node of smallest key among the nodes of height lvl or more, or the
\* sentinel id
FirstOfLevel(l, lvl) ==
    LET ids == {id \in LiveIds(l) : getNode(l, id).height >= lvl} IN
    IF ids = {} THEN nullID
    ELSE CHOOSE id \in ids :
             \A other \in ids : cmp(getNode(l, id).key, getNode(l, other).key) <= 0

\* C14: head[lvl] is the node of smallest key among the nodes of height lvl
\* or more, or the sentinel; a step changes head[lvl] exactly when it inserts
\* a node of height lvl or more whose key is below the key of head[lvl] (or
\* the chain is empty), and then head[lvl] is the new node.
C14_HeadChangesOnlyForNewFirst ==
    /\ [](\A lvl \in Levels : list.head[lvl] = FirstOfLevel(list, lvl))
    /\ [][\A lvl \in Levels :
              LET n == getNode(list', Count(list'))
                  newFirst ==
                      /\ Count(list') = Count(list) + 1
                      /\ lvl <= n.height
                      /\ compareKeys(n.key, getNode(list, list.head[lvl]).key) < 0
              IN /\ list'.head[lvl] # list.head[lvl] <=> newFirst
                 /\ newFirst => list'.head[lvl] = n.id]_vars

\* the second node, of height 1 and of smaller key, became the head of the
\* levels 0 and 1 and left the head of level 2 alone
C14_Witness ==
    /\ res.out = "inserted"
    /\ Count(list) = 2
    /\ getNode(list, 2).height = 1
    /\ list.head = [lvl \in Levels |-> IF lvl <= 1 THEN 2 ELSE 1]

\* C16: node ids are dense, unique and never reused: arena slot i holds the
\* node of id i, the real nodes have the ids 1 .. Count and never the
\* sentinel id, also when the arena is at capacity; a step that inserts
\* creates the node of id Count + 1 for the key put, and no step changes the
\* id, key or height of a stored node.
C16_IdsDenseAndStable ==
    /\ [](/\ \A i \in 0 .. Count(list) : getNode(list, i).id = i
          /\ \A i \in LiveIds(list) : getNode(list, i).id # nullID
          /\ Count(list) <= maxCount)
    /\ [][/\ Count(list') >= Count(list)
          /\ \A id \in 0 .. Count(list) :
                 LET a == getNode(list, id)
                     b == getNode(list', id)
                 IN b.id = a.id /\ b.key = a.key /\ b.height = a.height
          /\ Count(list') # Count(list) =>
                 /\ Count(list') = Count(list) + 1
                 /\ getNode(list', Count(list')).id = Count(list) + 1
                 /\ getNode(list', Count(list')).key = res'.key]_vars

\* the arena is at capacity and its last node, just inserted, has the id
\* maxCount
C16_Witness ==
    /\ res.out = "inserted"
    /\ Full(list)
    /\ getNode(list, maxCount).id = maxCount
    /\ getNode(list, maxCount).key = res.key

\* a linear search of the level-0 chain for the first node whose key the
\* comparator calls equal to key
LinearSearch(l, key) ==
    LET ids == Chain(l, 0).ids
        hits == {i \in 1 .. Len(ids) : cmp(key, getNode(l, ids[i]).key) = 0}
    IN IF hits = {} THEN [val |-> NilSlice, ok |-> FALSE]
       ELSE LET first == CHOOSE i \in hits : \A j \in hits : i <= j IN
            [val |-> getNode(l, ids[first]).val, ok |-> TRUE]

\* C17: for every key, put or not, nil included, Get returns what a linear
\* search of the level-0 chain returns, and its descent from the highest
\* level only ever takes the next vector of a real node, never the
\* sentinel's.
C17_GetIsLinearSearch ==
    \A key \in AllKeys :
        LET g == Get(list, key)
            d == GetDescend(list, key, highest, list.head)
        IN /\ g.out = "return"
           /\ [val |-> g.val, ok |-> g.ok] = LinearSearch(list, key)
           /\ d.followed \subseteq LiveIds(list)
           /\ nullID \notin d.followed

\* three keys stored; the key between the first two is not found, the second
\* is found, and the search for the last walks over both nodes before it
C17_Witness ==
    /\ Count(list) = 3
    /\ KeysPut = {B(<<>>), B(<<1, 2>>), B(<<2>>)}
    /\ ~Get(list, B(<<1>>)).ok
    /\ Get(list, B(<<1, 2>>)).ok
    /\ Cardinality(GetDescend(list, B(<<2>>), highest, list.head).followed) = 2
    /\ getNode(list, list.head[highest]).key = B(<<>>)

\* the low n bits of roll are all 1
LowOnes(roll, n) == roll % (2 ^ n) = (2 ^ n) - 1

\* the largest k in 0 .. 4 such that the low 3 * k bits of roll are all 1
WidestOnes(roll) ==
    CHOOSE k \in 0 .. 4 :
        /\ LowOnes(roll, 3 * k)
        /\ \A j \in (k + 1) .. 4 : ~LowOnes(roll, 3 * j)

\* C15: rollHeight returns the largest k in 0 .. 4 such that the low 3 * k
\* bits of the draw are all 1; the node a Put makes from the draw has that
\* height, which is in 0 .. maxHeight - 1; and of 4096 consecutive draws
\* 3584, 448, 56, 7 and 1 give the heights 0, 1, 2, 3 and 4.
C15_RollHeightCountsLowOnes ==
    /\ rollHeight(NewSkipList.src) = WidestOnes(randStream[1])
    /\ rollHeight(NewSkipList.src) \in 0 .. (maxHeight - 1)
    /\ Rolled > 0 =>
           /\ Count(list) = 1
           /\ getNode(list, 1).height = WidestOnes(randStream[1] - 1)
           /\ getNode(list, 1).height \in 0 .. (maxHeight - 1)
    /\ Rolled = RollSweep =>
           heights = [h \in Levels |->
                         IF h = 0 THEN 3584 ELSE IF h = 1 THEN 448
                         ELSE IF h = 2 THEN 56 ELSE IF h = 3 THEN 7 ELSE 1]

\* a sweep of draws with high bits set is over, the draw with the low twelve
\* bits set was in it, and the last node made has the height 1
C15_Witness ==
    /\ Rolled = RollSweep
    /\ heights[highest] = 1
    /\ randStream[1] > 2147475000
    /\ Count(list) = 1
    /\ getNode(list, 1).height = 1

\* the keys Next will return if the caller goes on and no Put comes between
Remaining == IterAllLoop(list, iter, <<>>, Len(list.nodes))

KeysOf(seq) == {seq[i] : i \in 1 .. Len(seq)}

\* C18: with Puts between the Next calls of an iterator, the keys yielded are
\* strictly ascending, every key stored when Iter was called is yielded or
\* still ahead (so is yielded by the end, once), the walk ahead is finite and
\* the caller who goes on calling Next reaches the nil key, and after the nil
\* key every Next returns the nil key.
C18_IteratorWithPutsBetween ==
    /\ [](/\ \A i, j \in 1 .. Len(yielded) :
                 i < j => cmp(yielded[i], yielded[j]) < 0
          /\ iterating =>
                 /\ ~Remaining.hang
                 /\ atIter \subseteq
                        KeysOf(yielded) \cup
                        {Remaining.pairs[i][1] : i \in 1 .. Len(Remaining.pairs)}
          /\ ended => /\ atIter \subseteq KeysOf(yielded)
                      /\ Next(list, iter).key.isNil)
    /\ iterating ~> ended

\* the iterator was made over two keys, a third key was put between them
\* before the second Next, and the iterator ended having yielded the two
C18_Witness ==
    /\ ended
    /\ atIter = {B(<<>>), B(<<2>>)}
    /\ yielded = <<B(<<>>), B(<<2>>)>>
    /\ StoredKeys(list) = {B(<<>>), B(<<1>>), B(<<2>>)}
    /\ getNode(list, 3).key = B(<<1>>)

\* C19: renaming the checked-out branch to a name no branch has returns the
\* error "error: Cannot rename checked out branch" and leaves the branches
\* and the working sets as they were: no branch of the new name is left
\* behind.
C19_RenameCheckedOutChangesNothing ==
    \A newBr \in BranchNames, force \in BOOLEAN, ext \in Ext :
        ~HasRef(ddb, newBr) =>
            LET r == Eval(ddb, cwbHeadRef, "move", <<cwbHeadRef, newBr>>, force, ext) IN
            /\ r.err = Errorf("error: Cannot rename checked out branch", <<>>)
            /\ r.ddb = ddb
            /\ ~HasRef(r.ddb, newBr)

\* the calls that name the checked-out branch to delete it or rename it
TargetsCheckedOut(mode, args) ==
    \/ mode = "move" /\ Len(args) >= 1 /\ args[1] = cwbHeadRef
    \/ mode \in {"delete", "deleteForce"} /\
           \E i \in 1 .. Len(args) : args[i] = cwbHeadRef

\* C20: no dolt_branch call deletes the checked-out branch: if it exists
\* before a call it exists after it, and so does its working set; and every
\* call that names it to delete or rename it returns an error.
C20_CheckedOutBranchSurvives ==
    /\ [][/\ HasRef(ddb, cwbHeadRef) => HasRef(ddb', cwbHeadRef')
          /\ (HasRef(ddb, cwbHeadRef) /\ cwbHeadRef \in ddb.workingSets) =>
                 cwbHeadRef' \in ddb'.workingSets
          /\ cwbHeadRef' = cwbHeadRef]_vars
    /\ [](HasRef(ddb, cwbHeadRef) =>
              \A mode \in {"move", "delete", "deleteForce"}, args \in ArgLists,
                 force \in BOOLEAN, ext \in Ext :
                  TargetsCheckedOut(mode, args) =>
                      LET r == Eval(ddb, cwbHeadRef, mode, args, force, ext) IN
                      /\ r.err # NoErr
                      /\ HasRef(r.ddb, cwbHeadRef))

\* a forced delete that named the checked-out branch returned its error; the
\* checked-out branch and its working set are there, the other branches are
\* deleted
C20_Witness ==
    /\ ret.mode = "deleteForce"
    /\ ret.err = Errorf("fatal: Unexpected error deleting '%s'", <<cwbHeadRef>>)
    /\ HasRef(ddb, cwbHeadRef)
    /\ cwbHeadRef \in ddb.workingSets
    /\ \A b \in BranchNames \ {cwbHeadRef} : ~HasRef(ddb, b)

====
